---- MODULE Spec2Model ----
(***************************************************************************)
(* Model of the media-service domain entities (UploadSession,              *)
(* ProcessingJob, MediaFile), of the Prisma repositories of upload         *)
(* sessions and media files, and of the upload request flow.               *)
(*                                                                         *)
(* An entity method is an operator from the property bag (and the wall     *)
(* clock reading that `new Date()` yields) to a result record              *)
(*   [props |-> the property bag after the call,                           *)
(*    error |-> NoError, or the message of the Error that was thrown,      *)
(*    value |-> the value returned (Undefined for void)].                  *)
(* An action is one call of a method by a caller; the caller's record of   *)
(* its last call (operation, argument, property bag before the call,       *)
(* outcome) is kept in sessionCall / jobCall.                              *)
(***************************************************************************)
EXTENDS Integers, Sequences, FiniteSets, TLC

VARIABLES
    now,          \* the wall clock read by new Date()
    session,      \* UploadSession.props (UploadSessionProps) of the session under test
    sessionCall,  \* the last call made on the session and its outcome
    sessionHist,  \* history: props at and after creation, successful addChunk calls, other mutators called
    job,          \* ProcessingJob.props (ProcessingJobProps) of the job under test
    jobCall,      \* the last call made on the job and its outcome
    jobHist,      \* history: props at creation
    db,           \* rows of table upload_sessions (the migration's CREATE TABLE)
    req,          \* the concurrent requests: position, private copy of the session, outcome
    media,        \* MediaFile.props (MediaFileProps) of the media file under test
    mediaCall,    \* the last call made on the media file and its outcome
    files,        \* rows of table media_files (the migration's CREATE TABLE)
    blobs,        \* the objects held by the storage backend, by storage path
    upl,          \* the upload requests: position, input, MediaFile in memory, outcome, timer
    jobRows,      \* rows of table processing_jobs
    repoCall,     \* the last repository call: repository, method, argument, stores before, outcome
    variants,     \* rows of table media_variants
    del,          \* the file-delete requests: position, input, MediaFile in memory, outcome
    vreq          \* the create-variant requests: position, MediaFile and MediaVariant in memory

vars == <<now, session, sessionCall, sessionHist, job, jobCall, jobHist, db, req,
          media, mediaCall, files, blobs, upl, jobRows, repoCall, variants, del, vreq>>

mediaVars == <<media, mediaCall>>
uploadVars == <<files, blobs, upl>>
storeVars == <<jobRows, repoCall>>
deleteVars == <<variants, del, vreq>>

(***************************************************************************)
(* Bounds of the model.                                                    *)
(***************************************************************************)
MaxTime == 3
MaxChunks == 2
MaxChunkSize == 2

Times == 0..MaxTime
ChunkCounts == 0..MaxChunks
ChunkSizes == {-1} \cup (0..MaxChunkSize)
Percentages == {-1, 0, 50, 100, 101}

(***************************************************************************)
(* JavaScript values.                                                      *)
(***************************************************************************)
\* A value that may be undefined is a sequence: <<>> is undefined, <<v>> is v.
Undefined == <<>>
Some(v) == <<v>>
NoError == "none"

\* { ...a, ...b }: the keys of both, b's value where both have the key
Spread(a, b) ==
    [k \in (DOMAIN a) \cup (DOMAIN b) |-> IF k \in DOMAIN b THEN b[k] ELSE a[k]]

Return(p, v) == [props |-> p, error |-> NoError, value |-> v]
Throw(p, message) == [props |-> p, error |-> message, value |-> Undefined]

(***************************************************************************)
(* UploadSession entity.                                                   *)
(***************************************************************************)
UploadSessionStatus ==
    [ACTIVE |-> "active", COMPLETED |-> "completed", FAILED |-> "failed", ABORTED |-> "aborted"]

UploadSessionStatuses == {UploadSessionStatus[k] : k \in DOMAIN UploadSessionStatus}

UploadSession_defaultProps(t) ==
    [uploadedChunks |-> 0,
     currentSizeBytes |-> 0,
     status |-> UploadSessionStatus.ACTIVE,
     createdAt |-> t,
     updatedAt |-> t]

UploadSession_create_DefaultsWin(props, t) == Spread(props, UploadSession_defaultProps(t))

UploadSession_create(props, t) == Spread(UploadSession_defaultProps(t), props)

UploadSession_isCompleted(p) == p.status = UploadSessionStatus.COMPLETED

UploadSession_isActive(p) == p.status = UploadSessionStatus.ACTIVE

UploadSession_complete_Unguarded(p, t) ==
    Return([p EXCEPT !.status = UploadSessionStatus.COMPLETED, !.updatedAt = t], Undefined)

UploadSession_complete(p, t) ==
    IF UploadSession_isCompleted(p)
    THEN Return(p, Undefined)
    ELSE Return([p EXCEPT !.status = UploadSessionStatus.COMPLETED, !.updatedAt = t], Undefined)

UploadSession_fail(p, t) ==
    Return([p EXCEPT !.status = UploadSessionStatus.FAILED, !.updatedAt = t], Undefined)

UploadSession_abort_Reopens(p, t) ==
    Return([p EXCEPT !.status = UploadSessionStatus.ACTIVE, !.updatedAt = t], Undefined)

UploadSession_abort(p, t) ==
    Return([p EXCEPT !.status = UploadSessionStatus.ABORTED, !.updatedAt = t], Undefined)

UploadSession_addChunk_Unguarded(p, chunkSize, t) ==
    LET q == [p EXCEPT !.uploadedChunks = @ + 1,
                       !.currentSizeBytes = @ + chunkSize,
                       !.updatedAt = t]
    IN  IF q.uploadedChunks >= q.totalChunks
        THEN Return(UploadSession_complete(q, t).props, Undefined)
        ELSE Return(q, Undefined)

UploadSession_addChunk_StrictlyMore(p, chunkSize, t) ==
    IF ~UploadSession_isActive(p)
    THEN Throw(p, "Cannot add chunk to a non-active upload session")
    ELSE LET q == [p EXCEPT !.uploadedChunks = @ + 1,
                            !.currentSizeBytes = @ + chunkSize,
                            !.updatedAt = t]
         IN  IF q.uploadedChunks > q.totalChunks
             THEN Return(UploadSession_complete(q, t).props, Undefined)
             ELSE Return(q, Undefined)

UploadSession_addChunk(p, chunkSize, t) ==
    IF ~UploadSession_isActive(p)
    THEN Throw(p, "Cannot add chunk to a non-active upload session")
    ELSE LET q == [p EXCEPT !.uploadedChunks = @ + 1,
                            !.currentSizeBytes = @ + chunkSize,
                            !.updatedAt = t]
         IN  IF q.uploadedChunks >= q.totalChunks
             THEN Return(UploadSession_complete(q, t).props, Undefined)
             ELSE Return(q, Undefined)

UploadSession_isExpired_AutoFails(p, t) ==
    IF t > p.expiresAt
    THEN Return([p EXCEPT !.status = UploadSessionStatus.FAILED], Some(TRUE))
    ELSE Return(p, Some(FALSE))

UploadSession_isExpired(p, t) == Return(p, Some(t > p.expiresAt))

(***************************************************************************)
(* The property bags a session is constructed from.  The only constructor  *)
(* call in the repository is toDomain, which passes every field of a row   *)
(* of upload_sessions (any status, any counters); a caller that leaves the *)
(* defaulted fields out gets the defaults of create.                       *)
(***************************************************************************)
UploadSessionRequiredProps ==
    { [userId |-> "u1", sessionToken |-> "tok1", totalChunks |-> n,
       totalSizeBytes |-> n * MaxChunkSize, expiresAt |-> e]
        : n \in ChunkCounts, e \in Times }

UploadSessionRowProps ==
    { Spread(r, [uploadedChunks |-> u, currentSizeBytes |-> u, status |-> s,
                 createdAt |-> 0, updatedAt |-> 0])
        : r \in UploadSessionRequiredProps, u \in ChunkCounts, s \in UploadSessionStatuses }

UploadSessionInputs == UploadSessionRequiredProps \cup UploadSessionRowProps

\* What a caller knows of a call: the operation, its argument, the time of
\* the call, the property bag before the call, and the outcome.
Call(op, arg, t, before, result) ==
    [op |-> op, arg |-> arg, at |-> t, before |-> before,
     error |-> result.error, value |-> result.value]

(***************************************************************************)
(* Calls on one UploadSession.                                             *)
(***************************************************************************)
SessionInit ==
    /\ now = 0
    /\ \E props \in UploadSessionInputs :
          /\ session = UploadSession_create(props, 0)
          /\ sessionCall = Call("create", Undefined, 0, session, Return(session, Undefined))
          /\ sessionHist = [created |-> session, props |-> props,
                            addChunkOk |-> 0, others |-> FALSE]

SessionApply(op, arg, result, mutator) ==
    /\ session' = result.props
    /\ sessionCall' = Call(op, arg, now, session, result)
    /\ sessionHist' =
          [sessionHist EXCEPT
              !.addChunkOk = IF op = "addChunk" /\ result.error = NoError THEN @ + 1 ELSE @,
              !.others = @ \/ mutator]
    /\ UNCHANGED <<now, job, jobCall, jobHist, db, req, mediaVars, uploadVars, storeVars, deleteVars>>

AddChunk(chunkSize) ==
    SessionApply("addChunk", Some(chunkSize), UploadSession_addChunk(session, chunkSize, now), FALSE)

Complete == SessionApply("complete", Undefined, UploadSession_complete(session, now), TRUE)

Fail == SessionApply("fail", Undefined, UploadSession_fail(session, now), TRUE)

Abort == SessionApply("abort", Undefined, UploadSession_abort(session, now), TRUE)

IsExpired == SessionApply("isExpired", Undefined, UploadSession_isExpired(session, now), FALSE)

\* Time passes between calls.
Tick ==
    /\ now < MaxTime
    /\ now' = now + 1
    /\ UNCHANGED <<session, sessionCall, sessionHist, job, jobCall, jobHist, db, req,
                   mediaVars, uploadVars, storeVars, deleteVars>>

SessionNext ==
    \/ \E chunkSize \in ChunkSizes : AddChunk(chunkSize)
    \/ Complete
    \/ Fail
    \/ Abort
    \/ IsExpired
    \/ Tick


(***************************************************************************)
(* ProcessingJob entity.                                                   *)
(***************************************************************************)
ProcessingJobStatus ==
    [PENDING |-> "pending", PROCESSING |-> "processing", COMPLETED |-> "completed", FAILED |-> "failed"]

ProcessingJobStatuses == {ProcessingJobStatus[k] : k \in DOMAIN ProcessingJobStatus}

ProcessingJob_defaultProps(t) ==
    [status |-> ProcessingJobStatus.PENDING,
     parameters |-> {},
     progressPercentage |-> 0,
     createdAt |-> t,
     updatedAt |-> t]

\* errorMessage, startedAt and completedAt are optional props: absent from the
\* object literal means undefined.
ProcessingJob_create(props, t) ==
    Spread([errorMessage |-> Undefined, startedAt |-> Undefined, completedAt |-> Undefined],
           Spread(ProcessingJob_defaultProps(t), props))

ProcessingJob_isCompleted(p) ==
    p.status = ProcessingJobStatus.COMPLETED \/ p.status = ProcessingJobStatus.FAILED

ProcessingJob_start_Unguarded(p, t) ==
    Return([p EXCEPT !.status = ProcessingJobStatus.PROCESSING,
                     !.startedAt = Some(t),
                     !.updatedAt = t], Undefined)

ProcessingJob_start(p, t) ==
    IF p.status # ProcessingJobStatus.PENDING
    THEN Throw(p, "Only pending jobs can be started")
    ELSE Return([p EXCEPT !.status = ProcessingJobStatus.PROCESSING,
                          !.startedAt = Some(t),
                          !.updatedAt = t], Undefined)

ProcessingJob_complete_KeepsProgress(p, t) ==
    IF p.status = ProcessingJobStatus.COMPLETED
    THEN Return(p, Undefined)
    ELSE Return([p EXCEPT !.status = ProcessingJobStatus.COMPLETED,
                          !.completedAt = Some(t),
                          !.updatedAt = t], Undefined)

ProcessingJob_complete_Unguarded(p, t) ==
    Return([p EXCEPT !.status = ProcessingJobStatus.COMPLETED,
                     !.progressPercentage = 100,
                     !.completedAt = Some(t),
                     !.updatedAt = t], Undefined)

ProcessingJob_complete(p, t) ==
    IF p.status = ProcessingJobStatus.COMPLETED
    THEN Return(p, Undefined)
    ELSE Return([p EXCEPT !.status = ProcessingJobStatus.COMPLETED,
                          !.progressPercentage = 100,
                          !.completedAt = Some(t),
                          !.updatedAt = t], Undefined)

ProcessingJob_fail_Guarded(p, message, t) ==
    IF ProcessingJob_isCompleted(p)
    THEN Return(p, Undefined)
    ELSE Return([p EXCEPT !.status = ProcessingJobStatus.FAILED,
                          !.errorMessage = Some(message),
                          !.completedAt = Some(t),
                          !.updatedAt = t], Undefined)

ProcessingJob_fail(p, message, t) ==
    Return([p EXCEPT !.status = ProcessingJobStatus.FAILED,
                     !.errorMessage = Some(message),
                     !.completedAt = Some(t),
                     !.updatedAt = t], Undefined)

ProcessingJob_updateProgress_RangeFirst(p, percentage, t) ==
    IF percentage < 0 \/ percentage > 100
    THEN Throw(p, "Progress percentage must be between 0 and 100")
    ELSE IF ProcessingJob_isCompleted(p)
         THEN Return(p, Undefined)
         ELSE Return([p EXCEPT !.progressPercentage = percentage, !.updatedAt = t], Undefined)

ProcessingJob_updateProgress(p, percentage, t) ==
    IF ProcessingJob_isCompleted(p)
    THEN Return(p, Undefined)
    ELSE IF percentage < 0 \/ percentage > 100
         THEN Throw(p, "Progress percentage must be between 0 and 100")
         ELSE Return([p EXCEPT !.progressPercentage = percentage, !.updatedAt = t], Undefined)

\* parameters is a map, kept as a set of <<key, value>> pairs with one pair per key;
\* { ...old, ...patch } keeps the old pairs whose key the patch does not have.
MergeParameters(old, patch) ==
    {kv \in old : \A pk \in patch : pk[1] # kv[1]} \cup patch

ProcessingJob_updateParameters_Requeues(p, parameters, t) ==
    IF ProcessingJob_isCompleted(p)
    THEN Return(p, Undefined)
    ELSE Return([p EXCEPT !.parameters = MergeParameters(@, parameters),
                          !.status = ProcessingJobStatus.PENDING,
                          !.updatedAt = t], Undefined)

ProcessingJob_updateParameters(p, parameters, t) ==
    IF ProcessingJob_isCompleted(p)
    THEN Return(p, Undefined)
    ELSE Return([p EXCEPT !.parameters = MergeParameters(@, parameters), !.updatedAt = t], Undefined)

(***************************************************************************)
(* The property bags a job is constructed from: toDomain passes every      *)
(* field of a row of processing_jobs; a caller that leaves the defaulted   *)
(* fields out gets the defaults of create.                                 *)
(***************************************************************************)
ProcessingJobRequiredProps == { [jobType |-> "thumbnail"] }

ProcessingJobRowProps ==
    { Spread(r, [status |-> s, parameters |-> {}, progressPercentage |-> pc,
                 errorMessage |-> Undefined, startedAt |-> st, completedAt |-> ct,
                 createdAt |-> 0, updatedAt |-> 0])
        : r \in ProcessingJobRequiredProps, s \in ProcessingJobStatuses,
          pc \in {0, 50, 100}, st \in {Undefined, Some(0)}, ct \in {Undefined, Some(0)} }

ProcessingJobInputs == ProcessingJobRequiredProps \cup ProcessingJobRowProps

ErrorMessages == {"boom"}
ParameterPatches == { {<<"width", 1>>}, {<<"width", 2>>}, {<<"format", 1>>} }

(***************************************************************************)
(* Calls on one ProcessingJob.                                             *)
(***************************************************************************)
JobInit ==
    /\ now = 0
    /\ job \in {ProcessingJob_create(props, 0) : props \in ProcessingJobInputs}
    /\ jobCall = Call("create", Undefined, 0, job, Return(job, Undefined))
    /\ jobHist = [created |-> job]

JobApply(op, arg, result) ==
    /\ job' = result.props
    /\ jobCall' = Call(op, arg, now, job, result)
    /\ UNCHANGED <<now, jobHist, session, sessionCall, sessionHist, db, req,
                   mediaVars, uploadVars, storeVars, deleteVars>>

Start == JobApply("start", Undefined, ProcessingJob_start(job, now))

JobComplete == JobApply("complete", Undefined, ProcessingJob_complete(job, now))

JobFail(message) == JobApply("fail", Some(message), ProcessingJob_fail(job, message, now))

UpdateProgress(percentage) ==
    JobApply("updateProgress", Some(percentage), ProcessingJob_updateProgress(job, percentage, now))

UpdateParameters(parameters) ==
    JobApply("updateParameters", Some(parameters), ProcessingJob_updateParameters(job, parameters, now))

JobNext ==
    \/ Start
    \/ JobComplete
    \/ \E message \in ErrorMessages : JobFail(message)
    \/ \E percentage \in Percentages : UpdateProgress(percentage)
    \/ \E parameters \in ParameterPatches : UpdateParameters(parameters)
    \/ Tick


(***************************************************************************)
(* PrismaUploadSessionRepository over table upload_sessions.               *)
(* An entity in memory is [id, props]; a row has every column; the data    *)
(* handed to Prisma has, per column, a value or undefined.                 *)
(***************************************************************************)
MaxRequests == 2

Requests == 1..MaxRequests
SessionId == "s1"

UploadSessionColumns ==
    {"id", "userId", "sessionToken", "totalChunks", "uploadedChunks", "totalSizeBytes",
     "currentSizeBytes", "status", "expiresAt", "createdAt", "updatedAt"}

\* Columns declared NOT NULL without a DEFAULT: an insert must supply them.
UploadSessionRequiredColumns ==
    {"id", "userId", "sessionToken", "totalChunks", "totalSizeBytes", "expiresAt", "updatedAt"}

UploadSessionColumnDefaults(t) ==
    [uploadedChunks |-> 0, currentSizeBytes |-> 0, status |-> "active", createdAt |-> t]

\* Reading property `name` of an UploadSession object from outside the class
\* (session as any): the value of the getter of that name, undefined when the
\* class declares none.
UploadSession_get(entity, name) ==
    CASE name = "id" -> Some(entity.id)
      [] name \in {"userId", "sessionToken", "status"} -> Some(entity.props[name])
      [] name = "isCompleted" -> Some(UploadSession_isCompleted(entity.props))
      [] name = "isActive" -> Some(UploadSession_isActive(entity.props))
      [] OTHER -> Undefined

toDomain(raw, t) ==
    [id |-> raw.id,
     props |-> UploadSession_create(
                  [userId |-> raw.userId,
                   sessionToken |-> raw.sessionToken,
                   totalChunks |-> raw.totalChunks,
                   uploadedChunks |-> raw.uploadedChunks,
                   totalSizeBytes |-> raw.totalSizeBytes,
                   currentSizeBytes |-> raw.currentSizeBytes,
                   status |-> raw.status,
                   expiresAt |-> raw.expiresAt,
                   createdAt |-> raw.createdAt,
                   updatedAt |-> raw.updatedAt], t)]

toPersistence(s) == [c \in UploadSessionColumns |-> UploadSession_get(s, c)]

\* findUnique({where: {id}}): the row or undefined
findById(rows, id, t) ==
    IF \E raw \in rows : raw.id = id
    THEN Some(toDomain(CHOOSE raw \in rows : raw.id = id, t))
    ELSE Undefined

\* Prisma's upsert({where: {id}, create, update}).  A key whose value is
\* undefined is a key that is absent: the query is rejected before it reaches
\* the database when `create` lacks a required column; otherwise the row with
\* that id takes the columns `update` has, or a new row is inserted.
upsert(rows, id, create, update, t) ==
    IF \E c \in UploadSessionRequiredColumns : create[c] = Undefined
    THEN [rows |-> rows, error |-> "PrismaClientValidationError"]
    ELSE IF \E raw \in rows : raw.id = id
         THEN [rows |-> { IF raw.id = id
                          THEN [c \in UploadSessionColumns |->
                                   IF update[c] = Undefined THEN raw[c] ELSE update[c][1]]
                          ELSE raw : raw \in rows },
               error |-> NoError]
         ELSE [rows |-> rows \cup
                  { [c \in UploadSessionColumns |->
                       IF create[c] = Undefined
                       THEN UploadSessionColumnDefaults(t)[c]
                       ELSE create[c][1]] },
               error |-> NoError]

save(rows, s, t) ==
    LET data == toPersistence(s)
    IN  upsert(rows, data.id[1], data, data, t)

update(rows, s, t) == save(rows, s, t)

(***************************************************************************)
(* Requests that each load the session, add a chunk to their own copy and  *)
(* write the copy back.  Every await is a point where another request may  *)
(* run.  The requests run at one reading of the clock: it only stamps      *)
(* updatedAt.                                                              *)
(***************************************************************************)
UploadSessionRows ==
    { [id |-> SessionId, userId |-> "u1", sessionToken |-> "tok1", totalChunks |-> n,
       uploadedChunks |-> u, totalSizeBytes |-> n * MaxChunkSize, currentSizeBytes |-> u,
       status |-> st, expiresAt |-> MaxTime, createdAt |-> 0, updatedAt |-> 0]
        : n \in 1..(MaxChunks + 2), u \in ChunkCounts, st \in UploadSessionStatuses }

RaceInit ==
    /\ now = 0
    /\ db \in { {raw} : raw \in UploadSessionRows }
    /\ req = [r \in Requests |-> [pc |-> "start", copy |-> Undefined, error |-> NoError]]

Persisted == CHOOSE raw \in db : raw.id = SessionId

ReqFindById(r) ==
    /\ req[r].pc = "start"
    /\ LET found == findById(db, SessionId, now)
       IN  req' = [req EXCEPT ![r] =
                     [pc |-> IF found = Undefined THEN "notFound" ELSE "loaded",
                      copy |-> found, error |-> NoError]]
    /\ UNCHANGED <<now, db, session, sessionCall, sessionHist, job, jobCall, jobHist,
                   mediaVars, uploadVars, storeVars, deleteVars>>

ReqAddChunk(r, chunkSize) ==
    /\ req[r].pc = "loaded"
    /\ LET result == UploadSession_addChunk(req[r].copy[1].props, chunkSize, now)
       IN  req' = [req EXCEPT ![r] =
                     [pc |-> IF result.error = NoError THEN "added" ELSE "rejected",
                      copy |-> Some([req[r].copy[1] EXCEPT !.props = result.props]),
                      error |-> result.error]]
    /\ UNCHANGED <<now, db, session, sessionCall, sessionHist, job, jobCall, jobHist,
                   mediaVars, uploadVars, storeVars, deleteVars>>

ReqWrite(r, result) ==
    /\ db' = result.rows
    /\ req' = [req EXCEPT ![r].pc = IF result.error = NoError THEN "saved" ELSE "saveThrew",
                          ![r].error = result.error]
    /\ UNCHANGED <<now, session, sessionCall, sessionHist, job, jobCall, jobHist,
                   mediaVars, uploadVars, storeVars, deleteVars>>

ReqSave(r) ==
    /\ req[r].pc = "added"
    /\ ReqWrite(r, save(db, req[r].copy[1], now))

ReqUpdate(r) ==
    /\ req[r].pc = "added"
    /\ ReqWrite(r, update(db, req[r].copy[1], now))

RaceNext ==
    \/ \E r \in Requests : ReqFindById(r)
    \/ \E r \in Requests, chunkSize \in ChunkSizes : ReqAddChunk(r, chunkSize)
    \/ \E r \in Requests : ReqSave(r)
    \/ \E r \in Requests : ReqUpdate(r)

(***************************************************************************)
(* MediaFile entity.                                                       *)
(***************************************************************************)
MaxDownloads == 2

\* OTHER is a reserved word, so the record is written as a function of the keys.
MediaCategory ==
    ("IMAGE" :> "image") @@ ("VIDEO" :> "video") @@ ("AUDIO" :> "audio")
        @@ ("DOCUMENT" :> "document") @@ ("OTHER" :> "other")

MediaCategories == {MediaCategory[k] : k \in DOMAIN MediaCategory}

VirusScanStatus ==
    [PENDING |-> "pending", CLEAN |-> "clean", INFECTED |-> "infected", ERROR |-> "error"]

VirusScanStatuses == {VirusScanStatus[k] : k \in DOMAIN VirusScanStatus}

MediaFile_defaultProps(t) ==
    [storageProvider |-> "s3",
     isProcessed |-> FALSE,
     isPublic |-> FALSE,
     downloadCount |-> 0,
     virusScanStatus |-> VirusScanStatus.PENDING,
     createdAt |-> t,
     updatedAt |-> t]

\* widthPixels, publicUrl and thumbnailUrl are optional props: absent from the
\* object literal means undefined.
MediaFile_create(props, t) ==
    Spread([widthPixels |-> Undefined, publicUrl |-> Undefined, thumbnailUrl |-> Undefined],
           Spread(MediaFile_defaultProps(t), props))

MediaFile_markAsProcessed(p, thumbnailUrl, t) ==
    LET q == [p EXCEPT !.isProcessed = TRUE, !.updatedAt = t]
    IN  IF thumbnailUrl # Undefined /\ thumbnailUrl[1] # ""
        THEN Return([q EXCEPT !.thumbnailUrl = thumbnailUrl], Undefined)
        ELSE Return(q, Undefined)

MediaFile_updateVirusScanStatus_Reprocess(p, status, t) ==
    Return([p EXCEPT !.virusScanStatus = status, !.isProcessed = FALSE, !.updatedAt = t],
           Undefined)

MediaFile_updateVirusScanStatus(p, status, t) ==
    Return([p EXCEPT !.virusScanStatus = status, !.updatedAt = t], Undefined)

MediaFile_incrementDownloadCount(p, t) ==
    Return([p EXCEPT !.downloadCount = @ + 1, !.updatedAt = t], Undefined)

MediaFile_updatePublicUrl(p, url, t) ==
    Return([p EXCEPT !.publicUrl = Some(url), !.updatedAt = t], Undefined)

(***************************************************************************)
(* The two upload paths and the property bags they construct a MediaFile   *)
(* from.  uploadResult is what the storage backend returned.               *)
(***************************************************************************)
UploadUsers == {"u1"}
PublicUrl == "https://cdn/u1/file.png"
ThumbnailUrl == "https://cdn/u1/thumb.png"

\* MediaStorageService.uploadMedia, after storageService.uploadFile returned
MediaStorageService_uploadMedia(userId, metadata, uploadResult, t) ==
    MediaFile_create(
        [originalFilename |-> metadata.originalName,
         mediaCategory |-> metadata.category,
         fileSizeBytes |-> uploadResult.bytes,
         uploadedByUserId |-> userId,
         storageProvider |-> "cloudinary",
         storagePath |-> uploadResult.public_id,
         publicUrl |-> Some(uploadResult.url),
         isPublic |-> metadata.isPublic,
         isProcessed |-> TRUE,
         virusScanStatus |-> VirusScanStatus.CLEAN,
         downloadCount |-> 0,
         widthPixels |-> uploadResult.width,
         createdAt |-> t,
         updatedAt |-> t], t)

\* MediaService.uploadFile, after the PutObjectCommand was acknowledged
MediaService_uploadFile(file, userId, metadata, fileKey, t) ==
    MediaFile_create(
        [originalFilename |-> metadata.originalName,
         mediaCategory |-> metadata.category,
         fileSizeBytes |-> file.size,
         uploadedByUserId |-> userId,
         storageProvider |-> "s3",
         storagePath |-> fileKey,
         publicUrl |-> IF metadata.isPublic THEN Some(PublicUrl) ELSE Undefined,
         isPublic |-> metadata.isPublic,
         isProcessed |-> FALSE,
         virusScanStatus |-> VirusScanStatus.PENDING,
         downloadCount |-> 0,
         createdAt |-> t,
         updatedAt |-> t], t)

UploadedFile == [originalname |-> "file.png", size |-> 1]

UploadMetadata ==
    { [originalName |-> UploadedFile.originalname, category |-> c, isPublic |-> pub]
        : c \in {MediaCategory.IMAGE}, pub \in BOOLEAN }

\* What the storage backend answers for the upload of request r.
UploadResult(r) ==
    [public_id |-> r, url |-> PublicUrl, bytes |-> UploadedFile.size, width |-> Some(1)]

\* The props toDomain passes for a stored row: every field, any scan status.
MediaFileRowProps ==
    { [originalFilename |-> "file.png", mediaCategory |-> MediaCategory.IMAGE,
       fileSizeBytes |-> 1, widthPixels |-> Undefined, uploadedByUserId |-> "u1",
       storageProvider |-> "s3", storagePath |-> 1, publicUrl |-> Undefined,
       thumbnailUrl |-> Undefined, isProcessed |-> pr, isPublic |-> FALSE,
       downloadCount |-> 0, virusScanStatus |-> vs, createdAt |-> 0, updatedAt |-> 0]
        : pr \in BOOLEAN, vs \in VirusScanStatuses }

\* The media files under test, each with the place that constructed it.
MediaFileInputs ==
    { [origin |-> "uploadMedia",
       props |-> MediaStorageService_uploadMedia("u1", m, UploadResult(1), 0)]
        : m \in UploadMetadata }
    \cup
    { [origin |-> "uploadFile",
       props |-> MediaService_uploadFile(UploadedFile, "u1", m, 1, 0)] : m \in UploadMetadata }
    \cup
    { [origin |-> "toDomain", props |-> MediaFile_create(props, 0)]
        : props \in MediaFileRowProps }

ThumbnailUrls == {Undefined, Some(""), Some(ThumbnailUrl)}

(***************************************************************************)
(* Calls on one MediaFile.                                                 *)
(***************************************************************************)
MediaInit ==
    /\ now = 0
    /\ \E input \in MediaFileInputs :
          /\ media = input.props
          /\ mediaCall = Call("create", Some(input.origin), 0, media, Return(media, Undefined))

MediaApply(op, arg, result) ==
    /\ media' = result.props
    /\ mediaCall' = Call(op, arg, now, media, result)
    /\ UNCHANGED <<now, session, sessionCall, sessionHist, job, jobCall, jobHist, db, req,
                   uploadVars, storeVars, deleteVars>>

MarkAsProcessed(thumbnailUrl) ==
    MediaApply("markAsProcessed", thumbnailUrl,
               MediaFile_markAsProcessed(media, thumbnailUrl, now))

UpdateVirusScanStatus(status) ==
    MediaApply("updateVirusScanStatus", Some(status),
               MediaFile_updateVirusScanStatus(media, status, now))

IncrementDownloadCount ==
    /\ media.downloadCount < MaxDownloads
    /\ MediaApply("incrementDownloadCount", Undefined,
                  MediaFile_incrementDownloadCount(media, now))

UpdatePublicUrl(url) ==
    MediaApply("updatePublicUrl", Some(url), MediaFile_updatePublicUrl(media, url, now))

MediaNext ==
    \/ \E thumbnailUrl \in ThumbnailUrls : MarkAsProcessed(thumbnailUrl)
    \/ \E status \in VirusScanStatuses : UpdateVirusScanStatus(status)
    \/ IncrementDownloadCount
    \/ UpdatePublicUrl(PublicUrl)
    \/ Tick

(***************************************************************************)
(* PrismaMediaFileRepository over table media_files.  A nullable column    *)
(* holds an optional value (<<>> is NULL); the data handed to Prisma has,  *)
(* per column, the column's value or undefined.                            *)
(***************************************************************************)
MediaFileColumns ==
    {"id", "originalFilename", "mediaCategory", "fileSizeBytes", "widthPixels",
     "uploadedByUserId", "storageProvider", "storagePath", "publicUrl", "thumbnailUrl",
     "isProcessed", "isPublic", "downloadCount", "virusScanStatus", "createdAt", "updatedAt"}

\* Columns declared NOT NULL without a DEFAULT: an insert must supply them.
MediaFileRequiredColumns ==
    {"id", "originalFilename", "mediaCategory", "fileSizeBytes", "uploadedByUserId",
     "storagePath", "updatedAt"}

MediaFileColumnDefaults(t) ==
    [widthPixels |-> Undefined, storageProvider |-> "s3", publicUrl |-> Undefined,
     thumbnailUrl |-> Undefined, isProcessed |-> FALSE, isPublic |-> FALSE,
     downloadCount |-> 0, virusScanStatus |-> "pending", createdAt |-> t]

\* Reading property `name` of a MediaFile object from outside the class
\* (mediaFile as any): the value of the getter of that name, undefined when the
\* class declares none.
MediaFile_get(entity, name) ==
    CASE name = "id" -> Some(entity.id)
      [] name \in {"originalFilename", "mediaCategory", "fileSizeBytes", "isPublic",
                   "uploadedByUserId", "isProcessed", "virusScanStatus", "downloadCount",
                   "createdAt", "updatedAt", "storagePath"} -> Some(entity.props[name])
      [] name = "publicUrl" ->
            IF entity.props.publicUrl = Undefined THEN Undefined ELSE Some(entity.props.publicUrl)
      [] OTHER -> Undefined

\* v ? v : undefined, for a number and for a string
TruthyNumber(v) == IF v # Undefined /\ v[1] # 0 THEN v ELSE Undefined
TruthyString(v) == IF v # Undefined /\ v[1] # "" THEN v ELSE Undefined

MediaFileRepository_toDomain(raw, t) ==
    [id |-> raw.id,
     props |-> MediaFile_create(
                  [originalFilename |-> raw.originalFilename,
                   mediaCategory |-> raw.mediaCategory,
                   fileSizeBytes |-> raw.fileSizeBytes,
                   widthPixels |-> TruthyNumber(raw.widthPixels),
                   uploadedByUserId |-> raw.uploadedByUserId,
                   storageProvider |-> raw.storageProvider,
                   storagePath |-> raw.storagePath,
                   publicUrl |-> TruthyString(raw.publicUrl),
                   thumbnailUrl |-> TruthyString(raw.thumbnailUrl),
                   isProcessed |-> raw.isProcessed,
                   isPublic |-> raw.isPublic,
                   downloadCount |-> raw.downloadCount,
                   virusScanStatus |-> raw.virusScanStatus,
                   createdAt |-> raw.createdAt,
                   updatedAt |-> raw.updatedAt], t)]

MediaFileRepository_toPersistence(mediaFile) ==
    [c \in MediaFileColumns |-> MediaFile_get(mediaFile, c)]

MediaFileRepository_findById(rows, id, t) ==
    IF \E raw \in rows : raw.id = id
    THEN Some(MediaFileRepository_toDomain(CHOOSE raw \in rows : raw.id = id, t))
    ELSE Undefined

\* Prisma's upsert({where: {id}, create, update}) on media_files.
MediaFileRepository_upsert(rows, id, create, updateData, t) ==
    IF \E c \in MediaFileRequiredColumns : create[c] = Undefined
    THEN [rows |-> rows, error |-> "PrismaClientValidationError"]
    ELSE IF \E raw \in rows : raw.id = id
         THEN [rows |-> { IF raw.id = id
                          THEN [c \in MediaFileColumns |->
                                   IF updateData[c] = Undefined THEN raw[c] ELSE updateData[c][1]]
                          ELSE raw : raw \in rows },
               error |-> NoError]
         ELSE [rows |-> rows \cup
                  { [c \in MediaFileColumns |->
                       IF create[c] = Undefined
                       THEN MediaFileColumnDefaults(t)[c]
                       ELSE create[c][1]] },
               error |-> NoError]

\* save drops the keys whose value is undefined and upserts the rest.
MediaFileRepository_save(rows, mediaFile, t) ==
    LET cleanData == MediaFileRepository_toPersistence(mediaFile)
    IN  MediaFileRepository_upsert(rows, cleanData.id[1], cleanData, cleanData, t)

MediaFileRepository_update(rows, mediaFile, t) == MediaFileRepository_save(rows, mediaFile, t)

(***************************************************************************)
(* Upload requests.  A request goes through MediaController.uploadFile     *)
(* (storage through MediaStorageService.uploadMedia, then save and         *)
(* findById) or through MediaService.uploadFile (S3 put, save, then a      *)
(* timer whose callback marks the stored file as processed).  Every await  *)
(* is a point where another request may run; the storage backend and the   *)
(* database may fail.  The id of the file and the storage path of request  *)
(* r are both r: each is generated fresh per request.                      *)
(***************************************************************************)
MaxUploads == 2

Uploads == 1..MaxUploads

\* `request` is what the client sent; `status` the HTTP status of the
\* response, or of the HttpException handed to next().
UploadIdle ==
    [pc |-> "idle", via |-> "none", request |-> Undefined, input |-> Undefined,
     file |-> Undefined, storage |-> "none", error |-> NoError, status |-> Undefined,
     timer |-> "none"]

UploadInit ==
    /\ now = 0
    /\ files = {}
    /\ blobs = {}
    /\ upl = [r \in Uploads |-> UploadIdle]

UploadFailed(r, message) == [upl EXCEPT ![r].pc = "failed", ![r].error = message]

\* status of a BadRequestException, and of the response to a stored upload
BadRequest == 400
Created == 201

\* throw new BadRequestException(message): handleError passes an
\* HttpException to next() as it is.
UploadRejected(r, message) ==
    [UploadFailed(r, message) EXCEPT ![r].status = Some(BadRequest)]

UploadFrame == UNCHANGED <<now, session, sessionCall, sessionHist, job, jobCall, jobHist,
                           db, req, mediaVars, storeVars, deleteVars>>

\* MediaController.uploadFile up to its first await: the checks of the
\* request, then uploadMedia's check of the buffer (whose error uploadMedia
\* replaces and handleError wraps).
CtlBegin_AnyCategory(r, hasFile, userId, category, isPublic, bufferLength) ==
    /\ upl[r].pc = "idle"
    /\ upl' =
          [ (IF ~hasFile
             THEN UploadRejected(r, "No se proporciono ningun archivo")
             ELSE IF userId = ""
             THEN UploadRejected(r, "Se requiere el ID de usuario")
             ELSE IF category = Undefined
             THEN UploadRejected(r, "Categoria invalida")
             ELSE IF bufferLength = 0
             THEN UploadFailed(r, "Error al cargar el archivo: No se pudo cargar el archivo")
             ELSE [upl EXCEPT ![r].pc = "uploading",
                              ![r].input =
                                  Some([userId |-> userId,
                                        metadata |-> [originalName |-> UploadedFile.originalname,
                                                      category |-> category[1],
                                                      isPublic |-> (isPublic = Some("true"))]])])
            EXCEPT ![r].via = "controller",
                   ![r].request = Some([hasFile |-> hasFile, userId |-> userId,
                                        category |-> category]) ]
    /\ UNCHANGED <<files, blobs>>
    /\ UploadFrame

\* MediaController.uploadFile up to its first await.
CtlBegin(r, hasFile, userId, category, isPublic, bufferLength) ==
    /\ upl[r].pc = "idle"
    /\ upl' =
          [ (IF ~hasFile
             THEN UploadRejected(r, "No se proporciono ningun archivo")
             ELSE IF userId = ""
             THEN UploadRejected(r, "Se requiere el ID de usuario")
             ELSE IF category = Undefined \/ category[1] \notin MediaCategories
             THEN UploadRejected(r, "Categoria invalida")
             ELSE IF bufferLength = 0
             THEN UploadFailed(r, "Error al cargar el archivo: No se pudo cargar el archivo")
             ELSE [upl EXCEPT ![r].pc = "uploading",
                              ![r].input =
                                  Some([userId |-> userId,
                                        metadata |-> [originalName |-> UploadedFile.originalname,
                                                      category |-> category[1],
                                                      isPublic |-> (isPublic = Some("true"))]])])
            EXCEPT ![r].via = "controller",
                   ![r].request = Some([hasFile |-> hasFile, userId |-> userId,
                                        category |-> category]) ]
    /\ UNCHANGED <<files, blobs>>
    /\ UploadFrame

CtlUploadReturns_IgnoresFailure(r, ok) ==
    /\ upl[r].pc = "uploading"
    /\ upl[r].via = "controller"
    /\ blobs' = IF ok THEN blobs \cup {UploadResult(r).public_id} ELSE blobs
    /\ upl' = [upl EXCEPT
                  ![r].pc = "saving",
                  ![r].storage = IF ok THEN "ok" ELSE "failed",
                  ![r].file =
                      Some([id |-> r,
                            props |-> MediaStorageService_uploadMedia(
                                          upl[r].input[1].userId, upl[r].input[1].metadata,
                                          UploadResult(r), now)])]
    /\ UNCHANGED files
    /\ UploadFrame

\* storageService.uploadFile settles: uploadMedia returns the MediaFile it
\* creates, or throws in place of the storage error.
CtlUploadReturns(r, ok) ==
    /\ upl[r].pc = "uploading"
    /\ upl[r].via = "controller"
    /\ IF ok
       THEN /\ blobs' = blobs \cup {UploadResult(r).public_id}
            /\ upl' = [upl EXCEPT
                          ![r].pc = "saving",
                          ![r].storage = "ok",
                          ![r].file =
                              Some([id |-> r,
                                    props |-> MediaStorageService_uploadMedia(
                                                  upl[r].input[1].userId,
                                                  upl[r].input[1].metadata,
                                                  UploadResult(r), now)])]
       ELSE /\ blobs' = blobs
            /\ upl' = [UploadFailed(r, "Error al cargar el archivo: No se pudo cargar el archivo")
                          EXCEPT ![r].storage = "failed"]
    /\ UNCHANGED files
    /\ UploadFrame

\* await this.mediaFileRepository.save(mediaFile)
CtlSave(r, dbOk) ==
    /\ upl[r].pc = "saving"
    /\ upl[r].via = "controller"
    /\ LET result == MediaFileRepository_save(files, upl[r].file[1], now)
       IN  IF dbOk /\ result.error = NoError
           THEN /\ files' = result.rows
                /\ upl' = [upl EXCEPT ![r].pc = "reading"]
           ELSE /\ files' = files
                /\ upl' = UploadFailed(r, "Error al cargar el archivo: database")
    /\ UNCHANGED blobs
    /\ UploadFrame

\* findById of the file just saved, then the 201 response
CtlFindSaved(r) ==
    /\ upl[r].pc = "reading"
    /\ LET savedFile == MediaFileRepository_findById(files, upl[r].file[1].id, now)
       IN  upl' = IF savedFile = Undefined
                  THEN UploadFailed(r, "Error al cargar el archivo: Error al guardar el archivo en la base de datos")
                  ELSE [upl EXCEPT ![r].pc = "done", ![r].file = savedFile,
                                   ![r].status = Some(Created)]
    /\ UNCHANGED <<files, blobs>>
    /\ UploadFrame

\* MediaService.uploadFile up to its first await (the PutObjectCommand)
SvcBegin(r, userId, metadata) ==
    /\ upl[r].pc = "idle"
    /\ upl' = [upl EXCEPT ![r].pc = "uploading",
                          ![r].via = "service",
                          ![r].input = Some([userId |-> userId, metadata |-> metadata])]
    /\ UNCHANGED <<files, blobs>>
    /\ UploadFrame

\* The put settles: the MediaFile is created, or the error is rethrown.
SvcPutReturns(r, ok) ==
    /\ upl[r].pc = "uploading"
    /\ upl[r].via = "service"
    /\ IF ok
       THEN /\ blobs' = blobs \cup {r}
            /\ upl' = [upl EXCEPT
                          ![r].pc = "saving",
                          ![r].storage = "ok",
                          ![r].file =
                              Some([id |-> r,
                                    props |-> MediaService_uploadFile(
                                                  UploadedFile, upl[r].input[1].userId,
                                                  upl[r].input[1].metadata, r, now)])]
       ELSE /\ blobs' = blobs
            /\ upl' = [UploadFailed(r, "S3ServiceException") EXCEPT ![r].storage = "failed"]
    /\ UNCHANGED files
    /\ UploadFrame

\* save, then scheduleMediaProcessing arms the timer and the file is returned
SvcSave(r, dbOk) ==
    /\ upl[r].pc = "saving"
    /\ upl[r].via = "service"
    /\ LET result == MediaFileRepository_save(files, upl[r].file[1], now)
       IN  IF dbOk /\ result.error = NoError
           THEN /\ files' = result.rows
                /\ upl' = [upl EXCEPT ![r].pc = "done", ![r].timer = "armed"]
           ELSE /\ files' = files
                /\ upl' = UploadFailed(r, "database")
    /\ UNCHANGED blobs
    /\ UploadFrame

\* The timer's callback up to its second await: findById, markAsProcessed.
TimerFind(r) ==
    /\ upl[r].timer = "armed"
    /\ LET mediaFile == MediaFileRepository_findById(files, r, now)
       IN  upl' = IF mediaFile = Undefined
                  THEN [upl EXCEPT ![r].timer = "done"]
                  ELSE [upl EXCEPT
                           ![r].timer = "updating",
                           ![r].file =
                               Some([mediaFile[1] EXCEPT
                                       !.props = MediaFile_markAsProcessed(
                                                     @, Undefined, now).props])]
    /\ UNCHANGED <<files, blobs>>
    /\ UploadFrame

\* The callback's update; an error is logged and dropped.
TimerUpdate(r, dbOk) ==
    /\ upl[r].timer = "updating"
    /\ LET result == MediaFileRepository_update(files, upl[r].file[1], now)
       IN  files' = IF dbOk /\ result.error = NoError THEN result.rows ELSE files
    /\ upl' = [upl EXCEPT ![r].timer = "done"]
    /\ UNCHANGED blobs
    /\ UploadFrame

UploadNext ==
    \/ \E r \in Uploads, hasFile \in BOOLEAN, userId \in UploadUsers \cup {""},
          category \in {Some(MediaCategory.IMAGE), Some("bogus"), Some(""), Undefined},
          isPublic \in {Some("true"), Undefined}, bufferLength \in {0, 1} :
            CtlBegin(r, hasFile, userId, category, isPublic, bufferLength)
    \/ \E r \in Uploads, ok \in BOOLEAN : CtlUploadReturns(r, ok)
    \/ \E r \in Uploads, dbOk \in BOOLEAN : CtlSave(r, dbOk)
    \/ \E r \in Uploads : CtlFindSaved(r)
    \/ \E r \in Uploads, userId \in UploadUsers, metadata \in UploadMetadata :
            SvcBegin(r, userId, metadata)
    \/ \E r \in Uploads, ok \in BOOLEAN : SvcPutReturns(r, ok)
    \/ \E r \in Uploads, dbOk \in BOOLEAN : SvcSave(r, dbOk)
    \/ \E r \in Uploads : TimerFind(r)
    \/ \E r \in Uploads, dbOk \in BOOLEAN : TimerUpdate(r, dbOk)

(***************************************************************************)
(* The delete methods of the four repositories, and deleteExpiredSessions. *)
(* A delete of a media_files row cascades to the rows of media_variants    *)
(* and processing_jobs that reference it (ON DELETE CASCADE).              *)
(***************************************************************************)
\* Prisma's delete({where: {id}}): error P2025 when no row has the id
prismaDelete(rows, id) ==
    IF \E raw \in rows : raw.id = id
    THEN [rows |-> {raw \in rows : raw.id # id}, error |-> NoError]
    ELSE [rows |-> rows, error |-> "P2025"]

\* try { await delete; return true } catch: false for P2025, rethrown otherwise
deleteOutcome(error) ==
    IF error = NoError THEN [error |-> NoError, value |-> Some(TRUE)]
    ELSE IF error = "P2025" THEN [error |-> NoError, value |-> Some(FALSE)]
    ELSE [error |-> error, value |-> Undefined]

\* PrismaUploadSessionRepository.delete
delete(rows, id) ==
    LET result == prismaDelete(rows, id)
    IN  [rows |-> result.rows] @@ deleteOutcome(result.error)

MediaVariantRepository_delete_Rethrows(rows, id) ==
    LET result == prismaDelete(rows, id)
    IN  [rows |-> result.rows, error |-> result.error,
         value |-> IF result.error = NoError THEN Some(TRUE) ELSE Undefined]

MediaVariantRepository_delete(rows, id) ==
    LET result == prismaDelete(rows, id)
    IN  [rows |-> result.rows] @@ deleteOutcome(result.error)

ProcessingJobRepository_delete(rows, id) ==
    LET result == prismaDelete(rows, id)
    IN  [rows |-> result.rows] @@ deleteOutcome(result.error)

MediaFileRepository_delete_NoCascade(store, id) ==
    LET result == prismaDelete(store.files, id)
    IN  [files |-> result.rows, variants |-> store.variants, jobRows |-> store.jobRows]
            @@ deleteOutcome(result.error)

\* store is [files, variants, jobRows]: the table and the tables that reference it
MediaFileRepository_delete(store, id) ==
    LET result == prismaDelete(store.files, id)
    IN  [files |-> result.rows,
         variants |-> IF result.error = NoError
                      THEN {v \in store.variants : v.originalFileId # id}
                      ELSE store.variants,
         jobRows |-> IF result.error = NoError
                     THEN {j \in store.jobRows : j.mediaFileId # Some(id)}
                     ELSE store.jobRows]
            @@ deleteOutcome(result.error)

\* deleteMany({where: {originalFileId}})
MediaVariantRepository_deleteByOriginalFileId(rows, originalFileId) ==
    LET gone == {v \in rows : v.originalFileId = originalFileId}
    IN  [rows |-> rows \ gone, error |-> NoError, value |-> Some(Cardinality(gone))]

deleteExpiredSessions_IgnoresStatus(rows, expirationDate) ==
    LET gone == {raw \in rows : raw.expiresAt < expirationDate}
    IN  [rows |-> rows \ gone, error |-> NoError, value |-> Some(Cardinality(gone))]

\* deleteMany({where: {expiresAt: {lt: expirationDate}, status: {not: 'completed'}}})
deleteExpiredSessions(rows, expirationDate) ==
    LET gone == {raw \in rows : raw.expiresAt < expirationDate /\ raw.status # "completed"}
    IN  [rows |-> rows \ gone, error |-> NoError, value |-> Some(Cardinality(gone))]

(***************************************************************************)
(* Repository calls, one at a time, against stores that hold at most one   *)
(* row per id and respect the foreign keys.  The database is up: a call    *)
(* fails only for what it is asked to do.                                  *)
(***************************************************************************)
StoreSessionIds == {"s1", "s2"}
StoreFileIds == {1, 2}
StoreVariantIds == {1, 2}
StoreJobIds == {1}

StoreSessionRows ==
    { [id |-> i, userId |-> "u1", sessionToken |-> i, totalChunks |-> MaxChunks,
       uploadedChunks |-> 1, totalSizeBytes |-> MaxChunks * MaxChunkSize,
       currentSizeBytes |-> 1, status |-> st, expiresAt |-> 1, createdAt |-> 0,
       updatedAt |-> 0]
        : i \in StoreSessionIds,
          st \in {UploadSessionStatus.ACTIVE, UploadSessionStatus.COMPLETED} }

\* The sessions a caller may hold: every stored session as findById returns it.
StoreSessions == { toDomain(raw, 0) : raw \in StoreSessionRows }

\* The files a caller may hold: as MediaService.uploadFile constructs them,
\* before and after markAsProcessed(thumbnailUrl).
StoreFiles ==
    UNION { LET m == MediaService_uploadFile(
                         UploadedFile, "u1",
                         [originalName |-> UploadedFile.originalname,
                          category |-> MediaCategory.IMAGE, isPublic |-> FALSE], i, 0)
            IN  { [id |-> i, props |-> m],
                  [id |-> i, props |-> MediaFile_markAsProcessed(m, Some(ThumbnailUrl), 0).props] }
            : i \in StoreFileIds }

StoreFileRows ==
    UNION { MediaFileRepository_save({}, m, 0).rows : m \in StoreFiles }

StoreVariantRows ==
    { [id |-> i, originalFileId |-> f, variantType |-> "optimized",
       storagePath |-> <<f, "optimized">>,
       publicUrl |-> Undefined, createdAt |-> 0]
        : i \in StoreVariantIds, f \in StoreFileIds }

StoreJobRows ==
    { [id |-> i, mediaFileId |-> f, jobType |-> "thumbnail",
       status |-> ProcessingJobStatus.PENDING]
        : i \in StoreJobIds, f \in {Undefined, Some(1)} }

\* primary key: at most one row per id
OneRowPerId(rows) == \A a, b \in rows : a.id = b.id => a = b

Ids(rows) == {raw.id : raw \in rows}

\* the table a repository works on
Table(stores, repo) ==
    CASE repo = "uploadSession" -> stores.db
      [] repo = "mediaFile" -> stores.files
      [] repo = "mediaVariant" -> stores.variants
      [] repo = "processingJob" -> stores.jobRows

Stores == [db |-> db, files |-> files, variants |-> variants, jobRows |-> jobRows]

StoreInit ==
    /\ now = 0
    /\ db \in {rows \in SUBSET StoreSessionRows : OneRowPerId(rows)}
    /\ files \in {rows \in SUBSET StoreFileRows : OneRowPerId(rows) /\ \A raw \in rows : ~raw.isProcessed}
    /\ variants \in {rows \in SUBSET StoreVariantRows :
                       /\ OneRowPerId(rows)
                       /\ \A v \in rows : v.originalFileId \in Ids(files)}
    /\ jobRows \in {rows \in SUBSET StoreJobRows :
                      /\ OneRowPerId(rows)
                      /\ \A j \in rows : j.mediaFileId = Undefined \/ j.mediaFileId[1] \in Ids(files)}
    /\ repoCall = [repo |-> "none", op |-> "none", arg |-> Undefined, before |-> Stores,
                   error |-> NoError, value |-> Undefined, prior |-> Undefined]

\* One call; `prior` holds what the call before it returned when that was the
\* same call with the same argument.
StoreApply(repo, op, arg, after, result) ==
    /\ db' = after.db
    /\ files' = after.files
    /\ variants' = after.variants
    /\ jobRows' = after.jobRows
    /\ repoCall' = [repo |-> repo, op |-> op, arg |-> arg, before |-> Stores,
                    error |-> result.error, value |-> result.value,
                    prior |-> IF repoCall.repo = repo /\ repoCall.op = op /\ repoCall.arg = arg
                              THEN Some(repoCall.value)
                              ELSE Undefined]
    /\ UNCHANGED <<now, session, sessionCall, sessionHist, job, jobCall, jobHist, req,
                   mediaVars, blobs, upl, del, vreq>>

SessionDelete(id) ==
    LET result == delete(db, id)
    IN  StoreApply("uploadSession", "delete", Some(id), [Stores EXCEPT !.db = result.rows], result)

VariantDelete(id) ==
    LET result == MediaVariantRepository_delete(variants, id)
    IN  StoreApply("mediaVariant", "delete", Some(id),
                   [Stores EXCEPT !.variants = result.rows], result)

JobDelete(id) ==
    LET result == ProcessingJobRepository_delete(jobRows, id)
    IN  StoreApply("processingJob", "delete", Some(id),
                   [Stores EXCEPT !.jobRows = result.rows], result)

FileDelete(id) ==
    LET result == MediaFileRepository_delete(Stores, id)
    IN  StoreApply("mediaFile", "delete", Some(id),
                   [Stores EXCEPT !.files = result.files, !.variants = result.variants,
                                  !.jobRows = result.jobRows], result)

SessionSave(s) ==
    LET result == save(db, s, now)
    IN  StoreApply("uploadSession", "save", Some(s), [Stores EXCEPT !.db = result.rows],
                   [error |-> result.error, value |-> Undefined])

SessionUpdate(s) ==
    LET result == update(db, s, now)
    IN  StoreApply("uploadSession", "update", Some(s), [Stores EXCEPT !.db = result.rows],
                   [error |-> result.error, value |-> Undefined])

FileSave(m) ==
    LET result == MediaFileRepository_save(files, m, now)
    IN  StoreApply("mediaFile", "save", Some(m), [Stores EXCEPT !.files = result.rows],
                   [error |-> result.error, value |-> Undefined])

FileUpdate(m) ==
    LET result == MediaFileRepository_update(files, m, now)
    IN  StoreApply("mediaFile", "update", Some(m), [Stores EXCEPT !.files = result.rows],
                   [error |-> result.error, value |-> Undefined])

DeleteExpiredSessions(expirationDate) ==
    LET result == deleteExpiredSessions(db, expirationDate)
    IN  StoreApply("uploadSession", "deleteExpiredSessions", Some(expirationDate),
                   [Stores EXCEPT !.db = result.rows], result)

StoreNext ==
    \/ \E id \in StoreSessionIds : SessionDelete(id)
    \/ \E id \in StoreVariantIds : VariantDelete(id)
    \/ \E id \in StoreJobIds : JobDelete(id)
    \/ \E id \in StoreFileIds : FileDelete(id)
    \/ \E s \in StoreSessions : SessionSave(s)
    \/ \E s \in StoreSessions : SessionUpdate(s)
    \/ \E m \in StoreFiles : FileSave(m)
    \/ \E m \in StoreFiles : FileUpdate(m)
    \/ \E expirationDate \in Times : DeleteExpiredSessions(expirationDate)

(***************************************************************************)
(* File-delete and create-variant requests, beside the uploads and their   *)
(* processing callbacks.  A request is split at its awaits.                *)
(***************************************************************************)
MaxDeletes == 1

Deletes == 1..MaxDeletes

\* one file is uploaded, transformed and deleted; one request creates a variant
DeleteFiles == {1}
VariantRequests == {1}

\* the user ids a request may carry: the uploader, another user, none
RequestUsers == {Some(u) : u \in UploadUsers} \cup {Some("u2"), Undefined}

\* MediaController.deleteFile, its earlier version, MediaService.deleteFile
DeletePaths == {"controller", "controllerV1", "service"}

\* statuses of the responses and of the HttpExceptions
Ok == 200
Unauthorized == 401
Forbidden == 403
NotFound == 404

DeleteIdle ==
    [pc |-> "idle", via |-> "none", variantRepository |-> FALSE, fileId |-> Undefined,
     userId |-> Undefined, file |-> Undefined, error |-> NoError, status |-> Undefined]

VariantIdle ==
    [pc |-> "idle", fileId |-> Undefined, userId |-> Undefined, file |-> Undefined,
     variant |-> Undefined, error |-> NoError, status |-> Undefined]

DeleteInit ==
    /\ UploadInit
    /\ variants = {}
    /\ del = [d \in Deletes |-> DeleteIdle]
    /\ vreq = [v \in VariantRequests |-> VariantIdle]

DeleteFailed(d, message, status) ==
    [del EXCEPT ![d].pc = "failed", ![d].error = message, ![d].status = status]

VariantFailed(v, message, status) ==
    [vreq EXCEPT ![v].pc = "failed", ![v].error = message, ![v].status = status]

DeleteFrame == UNCHANGED <<now, session, sessionCall, sessionHist, job, jobCall, jobHist,
                           db, req, mediaVars, storeVars, upl>>

\* The handler up to its first await, findById.  MediaService is constructed
\* with or without a variant repository; the current controller has one, its
\* earlier version does not use it.
DelBegin(d, via, fileId, userId, variantRepository) ==
    /\ del[d].pc = "idle"
    /\ variantRepository = CASE via = "controller" -> TRUE
                             [] via = "controllerV1" -> FALSE
                             [] via = "service" -> variantRepository
    /\ del' =
          [ (IF via = "controllerV1" /\ userId = Undefined
             THEN DeleteFailed(d, "Se requiere un ID de usuario o autenticacion valida",
                               Some(BadRequest))
             ELSE [del EXCEPT ![d].pc = "finding"])
            EXCEPT ![d].via = via, ![d].fileId = Some(fileId), ![d].userId = userId,
                   ![d].variantRepository = variantRepository ]
    /\ UNCHANGED <<files, blobs, variants, vreq>>
    /\ DeleteFrame

DelFind_NoOwnerCheck(d) ==
    /\ del[d].pc = "finding"
    /\ LET mediaFile == MediaFileRepository_findById(files, del[d].fileId[1], now)
       IN  del' = IF mediaFile = Undefined
                  THEN DeleteFailed(d, "Archivo no encontrado", Some(NotFound))
                  ELSE [del EXCEPT ![d].pc = "storage", ![d].file = mediaFile]
    /\ UNCHANGED <<files, blobs, variants, vreq>>
    /\ DeleteFrame

\* findById settles; then the owner check (in deleteMedia, in the earlier
\* controller, in isOwner) and the call of the storage delete.
DelFind(d) ==
    /\ del[d].pc = "finding"
    /\ LET mediaFile == MediaFileRepository_findById(files, del[d].fileId[1], now)
       IN  del' = IF mediaFile = Undefined
                  THEN DeleteFailed(d, "Archivo no encontrado", Some(NotFound))
                  ELSE IF Some(mediaFile[1].props.uploadedByUserId) # del[d].userId
                  THEN IF del[d].via = "service"
                       THEN DeleteFailed(d, "You do not have permission to delete this file",
                                         Some(BadRequest))
                       ELSE DeleteFailed(d, "No tienes permiso para eliminar este archivo",
                                         Some(Forbidden))
                  ELSE [del EXCEPT ![d].pc = "storage", ![d].file = mediaFile]
    /\ UNCHANGED <<files, blobs, variants, vreq>>
    /\ DeleteFrame

\* The storage delete settles.  Cloudinary's deleteFile returns false for an
\* error and the controller goes on; the S3 command throws and
\* MediaService.deleteFile throws in its place.
DelStorageReturns(d, ok) ==
    /\ del[d].pc = "storage"
    /\ blobs' = IF ok THEN blobs \ {del[d].fileId[1]} ELSE blobs
    /\ del' = IF ~ok /\ del[d].via = "service"
              THEN DeleteFailed(d, "Failed to delete file", Undefined)
              ELSE [del EXCEPT ![d].pc = IF del[d].variantRepository
                                         THEN "variants" ELSE "record"]
    /\ UNCHANGED <<files, variants, vreq>>
    /\ DeleteFrame

\* await this.mediaVariantRepository.deleteByOriginalFileId(fileId)
DelVariants(d, dbOk) ==
    /\ del[d].pc = "variants"
    /\ IF dbOk
       THEN /\ variants' = MediaVariantRepository_deleteByOriginalFileId(
                               variants, del[d].fileId[1]).rows
            /\ del' = [del EXCEPT ![d].pc = "record"]
       ELSE /\ variants' = variants
            /\ del' = DeleteFailed(d, IF del[d].via = "service"
                                      THEN "Failed to delete file"
                                      ELSE "Error al eliminar el archivo: database", Undefined)
    /\ UNCHANGED <<files, blobs, vreq>>
    /\ DeleteFrame

\* await this.mediaFileRepository.delete(fileId), whose result is not read;
\* then the 200 response (MediaService.deleteFile returns true).
DelRecord(d, dbOk) ==
    /\ del[d].pc = "record"
    /\ IF dbOk
       THEN LET result == MediaFileRepository_delete(
                              [files |-> files, variants |-> variants, jobRows |-> jobRows],
                              del[d].fileId[1])
            IN  /\ files' = result.files
                /\ variants' = result.variants
                /\ del' = [del EXCEPT ![d].pc = "done", ![d].status = Some(Ok)]
       ELSE /\ UNCHANGED <<files, variants>>
            /\ del' = DeleteFailed(d, IF del[d].via = "service"
                                      THEN "Failed to delete file"
                                      ELSE "Error al eliminar el archivo: database", Undefined)
    /\ UNCHANGED <<blobs, vreq>>
    /\ DeleteFrame

\* MediaVariant.create in createMediaVariant
MediaStorageService_createMediaVariant(originalFile, variantName, optimizedUrl, t) ==
    [originalFileId |-> originalFile.id,
     variantType |-> variantName,
     storagePath |-> <<originalFile.props.storagePath, variantName>>,
     publicUrl |-> Some(optimizedUrl),
     createdAt |-> t]

\* upsert({where: {id}, create: data, update: data}) on media_variants, whose
\* original_file_id references media_files(id)
MediaVariantRepository_save(rows, fileRows, variant) ==
    IF variant.props.originalFileId \notin Ids(fileRows)
    THEN [rows |-> rows, error |-> "P2003"]
    ELSE [rows |-> {raw \in rows : raw.id # variant.id}
                      \cup {[id |-> variant.id] @@ variant.props},
          error |-> NoError]

\* MediaController.createVariant up to its first await, findById
VarBegin(v, fileId, userId) ==
    /\ vreq[v].pc = "idle"
    /\ vreq' =
          [ (IF userId = Undefined
             THEN VariantFailed(v, "Se requiere autenticacion", Some(Unauthorized))
             ELSE [vreq EXCEPT ![v].pc = "finding"])
            EXCEPT ![v].fileId = Some(fileId), ![v].userId = userId ]
    /\ UNCHANGED <<files, blobs, variants, del>>
    /\ DeleteFrame

\* findById settles; the owner check; the call of createMediaVariant
VarFind(v) ==
    /\ vreq[v].pc = "finding"
    /\ LET mediaFile == MediaFileRepository_findById(files, vreq[v].fileId[1], now)
       IN  vreq' = IF mediaFile = Undefined
                   THEN VariantFailed(v, "Archivo no encontrado", Some(NotFound))
                   ELSE IF Some(mediaFile[1].props.uploadedByUserId) # vreq[v].userId
                   THEN VariantFailed(v, "No tienes permiso para crear variantes de este archivo",
                                      Some(Unauthorized))
                   ELSE [vreq EXCEPT ![v].pc = "transforming", ![v].file = mediaFile]
    /\ UNCHANGED <<files, blobs, variants, del>>
    /\ DeleteFrame

\* optimizeImage settles: the MediaVariant is created, or the error replaced
VarTransformReturns(v, ok) ==
    /\ vreq[v].pc = "transforming"
    /\ vreq' = IF ok
               THEN [vreq EXCEPT
                        ![v].pc = "saving",
                        ![v].variant =
                            Some([id |-> v,
                                  props |-> MediaStorageService_createMediaVariant(
                                                vreq[v].file[1], "custom", "optimized-url", now)])]
               ELSE VariantFailed(v, "Error al crear la variante: No se pudo crear la variante del archivo",
                                  Undefined)
    /\ UNCHANGED <<files, blobs, variants, del>>
    /\ DeleteFrame

\* await this.mediaVariantRepository.save(variant), then the 201 response
VarSave(v, dbOk) ==
    /\ vreq[v].pc = "saving"
    /\ LET result == MediaVariantRepository_save(variants, files, vreq[v].variant[1])
       IN  IF dbOk /\ result.error = NoError
           THEN /\ variants' = result.rows
                /\ vreq' = [vreq EXCEPT ![v].pc = "done", ![v].status = Some(Created)]
           ELSE /\ variants' = variants
                /\ vreq' = VariantFailed(v, "Error al crear la variante: database", Undefined)
    /\ UNCHANGED <<files, blobs, del>>
    /\ DeleteFrame

DeleteNext ==
    \/ \E r \in DeleteFiles, userId \in UploadUsers, category \in {Some(MediaCategory.IMAGE)} :
            CtlBegin(r, TRUE, userId, category, Undefined, 1)
    \/ \E r \in DeleteFiles, ok \in BOOLEAN : CtlUploadReturns(r, ok)
    \/ \E r \in DeleteFiles, dbOk \in BOOLEAN : CtlSave(r, dbOk)
    \/ \E r \in DeleteFiles : CtlFindSaved(r)
    \/ \E r \in DeleteFiles, userId \in UploadUsers, metadata \in UploadMetadata :
            SvcBegin(r, userId, metadata)
    \/ \E r \in DeleteFiles, ok \in BOOLEAN : SvcPutReturns(r, ok)
    \/ \E r \in DeleteFiles, dbOk \in BOOLEAN : SvcSave(r, dbOk)
    \/ \E r \in DeleteFiles : TimerFind(r)
    \/ \E r \in DeleteFiles, dbOk \in BOOLEAN : TimerUpdate(r, dbOk)
    \/ \E d \in Deletes, via \in DeletePaths, fileId \in DeleteFiles, userId \in RequestUsers,
          variantRepository \in BOOLEAN :
            DelBegin(d, via, fileId, userId, variantRepository)
    \/ \E d \in Deletes : DelFind(d)
    \/ \E d \in Deletes, ok \in BOOLEAN : DelStorageReturns(d, ok)
    \/ \E d \in Deletes, dbOk \in BOOLEAN : DelVariants(d, dbOk)
    \/ \E d \in Deletes, dbOk \in BOOLEAN : DelRecord(d, dbOk)
    \/ \E v \in VariantRequests, fileId \in DeleteFiles, userId \in RequestUsers :
            VarBegin(v, fileId, userId)
    \/ \E v \in VariantRequests : VarFind(v)
    \/ \E v \in VariantRequests, ok \in BOOLEAN : VarTransformReturns(v, ok)
    \/ \E v \in VariantRequests, dbOk \in BOOLEAN : VarSave(v, dbOk)

(***************************************************************************)
(* Specifications.  Each holds the variables of the other parts at rest.   *)
(***************************************************************************)
IdleSession ==
    LET props == [userId |-> "u1", sessionToken |-> "tok1", totalChunks |-> 1,
                  totalSizeBytes |-> 0, expiresAt |-> 0]
        s == UploadSession_create(props, 0)
    IN  /\ session = s
        /\ sessionCall = Call("create", Undefined, 0, s, Return(s, Undefined))
        /\ sessionHist = [created |-> s, props |-> props, addChunkOk |-> 0, others |-> FALSE]

IdleJob ==
    LET j == ProcessingJob_create([jobType |-> "thumbnail"], 0)
    IN  /\ job = j
        /\ jobCall = Call("create", Undefined, 0, j, Return(j, Undefined))
        /\ jobHist = [created |-> j]

IdleRepository ==
    /\ db = {}
    /\ req = [r \in Requests |-> [pc |-> "start", copy |-> Undefined, error |-> NoError]]

IdleMedia ==
    LET m == MediaService_uploadFile(
                 UploadedFile, "u1",
                 [originalName |-> UploadedFile.originalname,
                  category |-> MediaCategory.IMAGE, isPublic |-> FALSE], 1, 0)
    IN  /\ media = m
        /\ mediaCall = Call("create", Some("uploadFile"), 0, m, Return(m, Undefined))

IdleUploads ==
    /\ files = {}
    /\ blobs = {}
    /\ upl = [r \in Uploads |-> UploadIdle]

IdleStore ==
    /\ jobRows = {}
    /\ repoCall = Undefined

IdleRequests ==
    /\ del = <<>>
    /\ vreq = <<>>

IdleDelete ==
    /\ variants = {}
    /\ IdleRequests

Init ==
    SessionInit /\ IdleJob /\ IdleRepository /\ IdleMedia /\ IdleUploads /\ IdleStore /\ IdleDelete
Next == SessionNext
Spec == Init /\ [][Next]_vars

JobSpecInit ==
    JobInit /\ IdleSession /\ IdleRepository /\ IdleMedia /\ IdleUploads /\ IdleStore /\ IdleDelete
JobSpec == JobSpecInit /\ [][JobNext]_vars

RaceSpecInit ==
    RaceInit /\ IdleSession /\ IdleJob /\ IdleMedia /\ IdleUploads /\ IdleStore /\ IdleDelete
RaceSpec == RaceSpecInit /\ [][RaceNext]_vars

MediaSpecInit ==
    MediaInit /\ IdleSession /\ IdleJob /\ IdleRepository /\ IdleUploads /\ IdleStore /\ IdleDelete
MediaSpec == MediaSpecInit /\ [][MediaNext]_vars

UploadSpecInit ==
    UploadInit /\ IdleSession /\ IdleJob /\ IdleRepository /\ IdleMedia /\ IdleStore /\ IdleDelete
UploadSpec == UploadSpecInit /\ [][UploadNext]_vars

StoreSpecInit ==
    /\ StoreInit /\ IdleSession /\ IdleJob /\ IdleMedia /\ IdleRequests
    /\ req = [r \in Requests |-> [pc |-> "start", copy |-> Undefined, error |-> NoError]]
    /\ blobs = {}
    /\ upl = [r \in Uploads |-> UploadIdle]
StoreSpec == StoreSpecInit /\ [][StoreNext]_vars

DeleteSpecInit ==
    DeleteInit /\ IdleSession /\ IdleJob /\ IdleRepository /\ IdleMedia /\ IdleStore
DeleteSpec == DeleteSpecInit /\ [][DeleteNext]_vars


(***************************************************************************)
(* Properties of UploadSession.                                            *)
(***************************************************************************)
SessionTerminal ==
    {UploadSessionStatus.COMPLETED, UploadSessionStatus.FAILED, UploadSessionStatus.ABORTED}

SessionMutators == {"complete", "fail", "abort", "addChunk"}

\* The session was created ACTIVE with no chunk, and only addChunk has been called on it.
FreshOnlyAddChunk ==
    /\ sessionHist.created.status = UploadSessionStatus.ACTIVE
    /\ sessionHist.created.uploadedChunks = 0
    /\ ~sessionHist.others

\* C1 (as claimed): on a session created ACTIVE with uploadedChunks = 0 that
\* has only received addChunk calls, once exactly totalChunks calls have
\* succeeded the status is COMPLETED, and no later addChunk call succeeds (the
\* number of successful calls never exceeds totalChunks).
C1_CompletedAfterTotalChunks ==
    FreshOnlyAddChunk =>
        /\ (sessionHist.addChunkOk = session.totalChunks
               => session.status = UploadSessionStatus.COMPLETED)
        /\ sessionHist.addChunkOk <= session.totalChunks

\* C1 restricted to sessions that expect at least one chunk: this is what the
\* code guarantees.
C1_HoldsForPositiveTotal ==
    (FreshOnlyAddChunk /\ session.totalChunks >= 1) =>
        /\ (sessionHist.addChunkOk = session.totalChunks
               => session.status = UploadSessionStatus.COMPLETED)
        /\ sessionHist.addChunkOk <= session.totalChunks

\* C2 (as claimed): a call of complete, fail, abort or addChunk on a session
\* whose status is COMPLETED, FAILED or ABORTED leaves the status as it was.
C2_TerminalStatusIsFinal ==
    (sessionCall.op \in SessionMutators /\ sessionCall.before.status \in SessionTerminal)
        => session.status = sessionCall.before.status

\* C3: no call (complete, fail, abort, addChunk, isExpired) on a session whose
\* status is COMPLETED, FAILED or ABORTED leaves it ACTIVE.
C3_NeverBackToActive ==
    (sessionCall.op # "create" /\ sessionCall.before.status \in SessionTerminal)
        => session.status # UploadSessionStatus.ACTIVE

\* A FAILED session was completed: the status left one terminal value for another.
C3_Witness ==
    /\ sessionCall.op = "complete"
    /\ sessionCall.before.status = UploadSessionStatus.FAILED
    /\ session.status = UploadSessionStatus.COMPLETED

\* C4: addChunk on a session that is not ACTIVE throws and leaves
\* uploadedChunks, currentSizeBytes and status as they were.
C4_AddChunkRejectedWhenNotActive ==
    (sessionCall.op = "addChunk" /\ sessionCall.before.status # UploadSessionStatus.ACTIVE)
        => /\ sessionCall.error = "Cannot add chunk to a non-active upload session"
           /\ session.uploadedChunks = sessionCall.before.uploadedChunks
           /\ session.currentSizeBytes = sessionCall.before.currentSizeBytes
           /\ session.status = sessionCall.before.status

\* Scenario 7: every expected chunk was added, and one more addChunk was rejected.
C4_Witness ==
    /\ FreshOnlyAddChunk
    /\ session.totalChunks = MaxChunks
    /\ sessionHist.addChunkOk = session.totalChunks
    /\ sessionCall.op = "addChunk"
    /\ sessionCall.before.status = UploadSessionStatus.COMPLETED
    /\ sessionCall.error # NoError

\* C5: a successful addChunk(size) adds 1 to uploadedChunks and size to
\* currentSizeBytes; afterwards the status is COMPLETED iff uploadedChunks >=
\* totalChunks, and ACTIVE otherwise; after k < totalChunks calls on a fresh
\* session uploadedChunks = k and the status is ACTIVE.
C5_AddChunkEffect ==
    /\ (sessionCall.op = "addChunk" /\ sessionCall.error = NoError) =>
          /\ sessionCall.before.status = UploadSessionStatus.ACTIVE
          /\ session.uploadedChunks = sessionCall.before.uploadedChunks + 1
          /\ session.currentSizeBytes = sessionCall.before.currentSizeBytes + sessionCall.arg[1]
          /\ (session.status = UploadSessionStatus.COMPLETED
                <=> session.uploadedChunks >= session.totalChunks)
          /\ session.status \in {UploadSessionStatus.COMPLETED, UploadSessionStatus.ACTIVE}
    /\ (FreshOnlyAddChunk /\ sessionHist.addChunkOk < session.totalChunks) =>
          /\ session.uploadedChunks = sessionHist.addChunkOk
          /\ session.status = UploadSessionStatus.ACTIVE

\* The chunk that reaches totalChunks has just been added, after an earlier one.
C5_Witness ==
    /\ FreshOnlyAddChunk
    /\ sessionCall.op = "addChunk"
    /\ sessionCall.error = NoError
    /\ sessionCall.arg[1] > 0
    /\ sessionHist.addChunkOk >= 2
    /\ session.uploadedChunks = session.totalChunks

\* C7: complete() on a COMPLETED session changes neither status nor
\* updatedAt, and a second complete() at any later time leaves what the first left.
C7_SessionCompleteIdempotent ==
    /\ (sessionCall.op = "complete"
          /\ sessionCall.before.status = UploadSessionStatus.COMPLETED)
         => /\ session.status = sessionCall.before.status
            /\ session.updatedAt = sessionCall.before.updatedAt
    /\ \A t \in now..MaxTime :
          LET once == UploadSession_complete(session, now).props
          IN  UploadSession_complete(once, t).props = once

\* complete() was called on a COMPLETED session after its last update.
C7_Witness ==
    /\ sessionCall.op = "complete"
    /\ sessionCall.before.status = UploadSessionStatus.COMPLETED
    /\ sessionCall.at > sessionCall.before.updatedAt

\* C15 (as claimed): a session created with uploadedChunks = 0, whatever its
\* totalChunks, never has more uploaded chunks than totalChunks.
C15_UploadedWithinTotal ==
    sessionHist.created.uploadedChunks = 0 => session.uploadedChunks <= session.totalChunks

\* C15 restricted to sessions that expect at least one chunk: this is what the
\* code guarantees.
C15_HoldsForPositiveTotal ==
    (sessionHist.created.uploadedChunks = 0 /\ session.totalChunks >= 1)
        => session.uploadedChunks <= session.totalChunks

\* C16 (as claimed): a successful addChunk never leaves currentSizeBytes lower
\* than it was, and no other call changes currentSizeBytes.
C16_SizeMonotone ==
    sessionCall.op # "create" =>
        IF sessionCall.op = "addChunk" /\ sessionCall.error = NoError
        THEN session.currentSizeBytes >= sessionCall.before.currentSizeBytes
        ELSE session.currentSizeBytes = sessionCall.before.currentSizeBytes

\* What the code keeps of C16: currentSizeBytes changes only by a successful
\* addChunk, and then by exactly the size given.
C16_OnlyAddChunkChangesSize ==
    sessionCall.op # "create" =>
        session.currentSizeBytes =
            IF sessionCall.op = "addChunk" /\ sessionCall.error = NoError
            THEN sessionCall.before.currentSizeBytes + sessionCall.arg[1]
            ELSE sessionCall.before.currentSizeBytes

CreateDefaulted == {"uploadedChunks", "currentSizeBytes", "status"}

\* C17 (as claimed): whatever props is, create(props) returns a session with
\* uploadedChunks = 0, currentSizeBytes = 0 and status ACTIVE.
C17_CreateAlwaysFresh ==
    sessionCall.op = "create" =>
        /\ session.uploadedChunks = 0
        /\ session.currentSizeBytes = 0
        /\ session.status = UploadSessionStatus.ACTIVE

\* C17 (amended): create(props) keeps the uploadedChunks, currentSizeBytes and
\* status that props supplies; 0, 0 and ACTIVE are what a field gets that props
\* leaves out.
C17_CreateDefaults ==
    sessionCall.op = "create" =>
        \A f \in CreateDefaulted :
            session[f] = IF f \in DOMAIN sessionHist.props
                         THEN sessionHist.props[f]
                         ELSE UploadSession_defaultProps(sessionCall.at)[f]

\* A session was created from props without the defaulted fields: it is fresh.
C17_Witness ==
    /\ sessionCall.op = "create"
    /\ CreateDefaulted \cap DOMAIN sessionHist.props = {}
    /\ session.uploadedChunks = 0
    /\ session.currentSizeBytes = 0
    /\ session.status = UploadSessionStatus.ACTIVE

\* C18: isExpired() returns whether the clock is past expiresAt and changes no
\* field; the passing of time changes no field either; and addChunk on an
\* ACTIVE session past its expiresAt succeeds as on any ACTIVE session.
C18_ExpiryObservational ==
    /\ sessionCall.op = "isExpired" =>
          /\ sessionCall.error = NoError
          /\ sessionCall.value = Some(sessionCall.at > sessionCall.before.expiresAt)
          /\ session = sessionCall.before
    /\ (sessionCall.op = "addChunk"
          /\ sessionCall.before.status = UploadSessionStatus.ACTIVE
          /\ sessionCall.at > sessionCall.before.expiresAt) =>
          /\ sessionCall.error = NoError
          /\ session.uploadedChunks = sessionCall.before.uploadedChunks + 1

C18_TimeChangesNothing == [][now' # now => session' = session]_vars

\* isExpired() answered true on a session that is still ACTIVE and that took a
\* chunk after it had expired.
C18_Witness ==
    /\ sessionCall.op = "isExpired"
    /\ sessionCall.value = Some(TRUE)
    /\ session.status = UploadSessionStatus.ACTIVE
    /\ session.updatedAt > session.expiresAt
    /\ session.uploadedChunks > sessionHist.created.uploadedChunks

(***************************************************************************)
(* Properties of ProcessingJob.                                            *)
(***************************************************************************)
JobTerminal == {ProcessingJobStatus.COMPLETED, ProcessingJobStatus.FAILED}

JobOperations == {"start", "complete", "fail", "updateProgress", "updateParameters"}

\* C8: complete() on a COMPLETED job changes none of status,
\* progressPercentage, completedAt, updatedAt; on any other job it sets status
\* COMPLETED, progressPercentage 100 and completedAt to the time of the call.
C8_JobCompleteIdempotent ==
    jobCall.op = "complete" =>
        IF jobCall.before.status = ProcessingJobStatus.COMPLETED
        THEN /\ job.status = jobCall.before.status
             /\ job.progressPercentage = jobCall.before.progressPercentage
             /\ job.completedAt = jobCall.before.completedAt
             /\ job.updatedAt = jobCall.before.updatedAt
        ELSE /\ job.status = ProcessingJobStatus.COMPLETED
             /\ job.progressPercentage = 100
             /\ job.completedAt = Some(jobCall.at)

\* complete() was called again on a job it had completed earlier.
C8_Witness ==
    /\ jobCall.op = "complete"
    /\ jobCall.before.status = ProcessingJobStatus.COMPLETED
    /\ jobCall.before.completedAt # Undefined
    /\ jobCall.at > jobCall.before.completedAt[1]

\* C9: start() succeeds iff the status is PENDING; then the status becomes
\* PROCESSING and startedAt the time of the call; otherwise it throws and
\* leaves status and startedAt as they were.
C9_StartOnlyFromPending ==
    jobCall.op = "start" =>
        IF jobCall.before.status = ProcessingJobStatus.PENDING
        THEN /\ jobCall.error = NoError
             /\ job.status = ProcessingJobStatus.PROCESSING
             /\ job.startedAt = Some(jobCall.at)
        ELSE /\ jobCall.error = "Only pending jobs can be started"
             /\ job.status = jobCall.before.status
             /\ job.startedAt = jobCall.before.startedAt

\* start() was called on a job that had been started earlier.
C9_Witness ==
    /\ jobCall.op = "start"
    /\ jobCall.before.status = ProcessingJobStatus.PROCESSING
    /\ jobCall.before.startedAt # Undefined
    /\ jobCall.at > jobCall.before.startedAt[1]
    /\ jobCall.error # NoError

\* C10 (as claimed): a call of start, complete, fail, updateProgress or
\* updateParameters on a COMPLETED or FAILED job leaves the status as it was.
C10_JobTerminalIsFinal ==
    (jobCall.op \in JobOperations /\ jobCall.before.status \in JobTerminal)
        => job.status = jobCall.before.status

\* What the code keeps of C10: a COMPLETED or FAILED job never becomes
\* PENDING or PROCESSING again.
C10_StaysTerminal ==
    (jobCall.op \in JobOperations /\ jobCall.before.status \in JobTerminal)
        => job.status \in JobTerminal

\* C11 (as claimed): a call that leaves a job COMPLETED that was not COMPLETED
\* before started from PROCESSING, and a job created PENDING that is COMPLETED
\* has startedAt set.
C11_CompletedOnlyFromProcessing ==
    /\ (jobCall.op \in JobOperations
          /\ job.status = ProcessingJobStatus.COMPLETED
          /\ jobCall.before.status # ProcessingJobStatus.COMPLETED)
         => jobCall.before.status = ProcessingJobStatus.PROCESSING
    /\ (jobHist.created.status = ProcessingJobStatus.PENDING
          /\ job.status = ProcessingJobStatus.COMPLETED)
         => job.startedAt # Undefined

\* What the code keeps of C11: only complete() sets COMPLETED, and it sets
\* completedAt with it.
C11_CompletedOnlyByComplete ==
    (jobCall.op \in JobOperations
       /\ job.status = ProcessingJobStatus.COMPLETED
       /\ jobCall.before.status # ProcessingJobStatus.COMPLETED)
      => /\ jobCall.op = "complete"
         /\ job.completedAt = Some(jobCall.at)

\* C12: updateProgress(p) on a PENDING or PROCESSING job sets
\* progressPercentage to p when 0 <= p <= 100 and throws, leaving
\* progressPercentage as it was, otherwise; on a COMPLETED or FAILED job it
\* changes nothing and throws nothing, whatever p is.
C12_UpdateProgress ==
    jobCall.op = "updateProgress" =>
        IF jobCall.before.status \in JobTerminal
        THEN /\ jobCall.error = NoError
             /\ job = jobCall.before
        ELSE IF jobCall.arg[1] >= 0 /\ jobCall.arg[1] <= 100
             THEN /\ jobCall.error = NoError
                  /\ job.progressPercentage = jobCall.arg[1]
             ELSE /\ jobCall.error = "Progress percentage must be between 0 and 100"
                  /\ job.progressPercentage = jobCall.before.progressPercentage

\* updateProgress was called with a percentage out of range on a job that had
\* failed, and nothing was signalled.
C12_Witness ==
    /\ jobCall.op = "updateProgress"
    /\ jobCall.before.status = ProcessingJobStatus.FAILED
    /\ jobCall.arg[1] > 100
    /\ jobCall.error = NoError

\* C13: fail(error) from every status sets status FAILED, errorMessage to
\* error.message and completedAt to the time of the call, throws nothing and
\* leaves startedAt as it was.
C13_FailUnconditional ==
    jobCall.op = "fail" =>
        /\ jobCall.error = NoError
        /\ job.status = ProcessingJobStatus.FAILED
        /\ job.errorMessage = jobCall.arg
        /\ job.completedAt = Some(jobCall.at)
        /\ job.startedAt = jobCall.before.startedAt

\* Scenario: a job created PENDING and never started was failed; startedAt is
\* still unset.
C13_Witness ==
    /\ jobCall.op = "fail"
    /\ jobHist.created.status = ProcessingJobStatus.PENDING
    /\ jobCall.before.status = ProcessingJobStatus.PENDING
    /\ job.status = ProcessingJobStatus.FAILED
    /\ job.errorMessage = Some("boom")
    /\ job.startedAt = Undefined

\* C14: no call of start, complete, fail, updateProgress or updateParameters on
\* a PROCESSING, COMPLETED or FAILED job leaves it PENDING.
C14_NeverBackToPending ==
    (jobCall.op \in JobOperations /\ jobCall.before.status # ProcessingJobStatus.PENDING)
        => job.status # ProcessingJobStatus.PENDING

\* The parameters of a PROCESSING job were changed, and it is still PROCESSING.
C14_Witness ==
    /\ jobCall.op = "updateParameters"
    /\ jobCall.before.status = ProcessingJobStatus.PROCESSING
    /\ job.parameters # jobCall.before.parameters
    /\ job.status = ProcessingJobStatus.PROCESSING

(***************************************************************************)
(* Properties of concurrent requests on one stored session.                *)
(***************************************************************************)
ReqWritten(r) == req[r].pc \in {"saved", "saveThrew"}

\* uploadedChunks as request r read it: its addChunk added one to its copy.
ReqRead(r) == req[r].copy[1].props.uploadedChunks - 1

\* C6 (as claimed): when two requests have read the same uploadedChunks = k,
\* have each added a chunk to their copy and have each written the copy back,
\* the stored uploadedChunks is k + 1: one of the two increments is lost.
C6_LostIncrement ==
    \A r1, r2 \in Requests :
        (r1 # r2 /\ ReqWritten(r1) /\ ReqWritten(r2) /\ ReqRead(r1) = ReqRead(r2))
            => Persisted.uploadedChunks = ReqRead(r1) + 1

\* What the code does instead: every write is rejected, so no step of a request
\* changes the stored rows.
C6_NothingStored == [][db' = db]_vars

(***************************************************************************)
(* Properties of the upload request flow and of MediaFile.                 *)
(***************************************************************************)
Saved(r) == \E raw \in files : raw.id = r

\* C19: a media_files row exists for an upload request only if the storage
\* backend's upload for that request returned successfully (the object is
\* stored); a request whose storage upload failed has no row.
C19_SavedOnlyAfterStorageUpload ==
    \A r \in Uploads :
        /\ Saved(r) => (upl[r].storage = "ok" /\ r \in blobs)
        /\ upl[r].storage = "failed" => (~Saved(r) /\ upl[r].pc = "failed")

\* One request's storage upload failed and left no row, while another
\* request's file was stored and then saved.
C19_Witness ==
    \E r1, r2 \in Uploads :
        /\ upl[r1].via = "controller"
        /\ upl[r1].storage = "failed"
        /\ ~Saved(r1)
        /\ upl[r2].storage = "ok"
        /\ upl[r2].pc = "done"
        /\ Saved(r2)

MediaFileScanPreserving == {"markAsProcessed", "incrementDownloadCount", "updatePublicUrl"}

\* C20 (as claimed): a MediaFile constructed by an upload has virusScanStatus
\* PENDING, and markAsProcessed, incrementDownloadCount and updatePublicUrl
\* leave virusScanStatus as it was.
C20_ScanStatusStartsPending ==
    /\ (mediaCall.op = "create" /\ mediaCall.arg \in {Some("uploadMedia"), Some("uploadFile")})
          => media.virusScanStatus = VirusScanStatus.PENDING
    /\ mediaCall.op \in MediaFileScanPreserving
          => media.virusScanStatus = mediaCall.before.virusScanStatus

\* What the code keeps of C20: after construction only updateVirusScanStatus
\* changes virusScanStatus, and the file MediaService.uploadFile constructs
\* starts PENDING.
C20_OnlyScanUpdateChangesStatus ==
    /\ (mediaCall.op = "create" /\ mediaCall.arg = Some("uploadFile"))
          => media.virusScanStatus = VirusScanStatus.PENDING
    /\ (mediaCall.op # "create" /\ media.virusScanStatus # mediaCall.before.virusScanStatus)
          => mediaCall.op = "updateVirusScanStatus"

\* C21: markAsProcessed leaves isProcessed true, whatever it was; no other
\* mutator changes isProcessed; so once true it stays true.
C21_ProcessedNeverRegresses ==
    mediaCall.op # "create" =>
        /\ mediaCall.op = "markAsProcessed" => media.isProcessed
        /\ mediaCall.op # "markAsProcessed" => media.isProcessed = mediaCall.before.isProcessed
        /\ mediaCall.before.isProcessed => media.isProcessed

\* markAsProcessed was repeated, after its time, on a file already processed.
C21_Witness ==
    /\ mediaCall.op = "markAsProcessed"
    /\ mediaCall.before.isProcessed
    /\ mediaCall.at > mediaCall.before.updatedAt
    /\ media.isProcessed

\* The job was created with the default initial state.
JobCreatedDefault ==
    /\ jobHist.created.status = ProcessingJobStatus.PENDING
    /\ jobHist.created.progressPercentage = 0
    /\ jobHist.created.startedAt = Undefined
    /\ jobHist.created.completedAt = Undefined

\* C30: on a job created with the default initial state, progressPercentage
\* is within 0..100, a COMPLETED job has progressPercentage 100, and
\* completedAt is set exactly when the status is COMPLETED or FAILED.
C30_JobInvariants ==
    JobCreatedDefault =>
        /\ job.progressPercentage >= 0
        /\ job.progressPercentage <= 100
        /\ job.status = ProcessingJobStatus.COMPLETED => job.progressPercentage = 100
        /\ job.completedAt # Undefined <=> job.status \in JobTerminal

\* A default job was started, reported half its progress and was completed.
C30_Witness ==
    /\ JobCreatedDefault
    /\ jobCall.op = "complete"
    /\ jobCall.before.status = ProcessingJobStatus.PROCESSING
    /\ jobCall.before.progressPercentage = 50
    /\ job.progressPercentage = 100
    /\ job.completedAt # Undefined

(***************************************************************************)
(* Repository contracts (StoreSpec).                                       *)
(***************************************************************************)
\* C22: in each of the four repositories, delete(id) of an id that is not
\* stored returns false, raises nothing and leaves every store as it was;
\* delete(id) of a stored id removes that row and returns true; a delete that
\* repeats the delete before it returns false.
C22_DeleteContract ==
    repoCall.op = "delete" =>
        LET id == repoCall.arg[1]
            rowsBefore == Table(repoCall.before, repoCall.repo)
            rowsAfter == Table(Stores, repoCall.repo)
        IN  /\ repoCall.error = NoError
            /\ id \notin Ids(rowsBefore) =>
                   /\ repoCall.value = Some(FALSE)
                   /\ Stores = repoCall.before
            /\ id \in Ids(rowsBefore) =>
                   /\ repoCall.value = Some(TRUE)
                   /\ rowsAfter = {raw \in rowsBefore : raw.id # id}
            /\ repoCall.prior # Undefined => repoCall.value = Some(FALSE)

\* a stored media variant deleted twice in a row: true, then false
C22_Witness ==
    /\ repoCall.repo = "mediaVariant"
    /\ repoCall.op = "delete"
    /\ repoCall.prior = Some(Some(TRUE))
    /\ repoCall.value = Some(FALSE)
    /\ repoCall.error = NoError
    /\ Stores = repoCall.before

\* C29: deleteExpiredSessions(d) removes exactly the upload sessions with
\* expiresAt < d and a status other than completed, leaves every other row
\* and every other table as it was, and returns the number of rows removed.
C29_DeleteExpiredSessions ==
    repoCall.op = "deleteExpiredSessions" =>
        LET d == repoCall.arg[1]
            gone == {raw \in repoCall.before.db :
                        raw.expiresAt < d /\ raw.status # UploadSessionStatus.COMPLETED}
        IN  /\ repoCall.error = NoError
            /\ db = repoCall.before.db \ gone
            /\ Stores = [repoCall.before EXCEPT !.db = db]
            /\ repoCall.value = Some(Cardinality(gone))

\* one expired session removed while a completed, expired one is kept
C29_Witness ==
    /\ repoCall.op = "deleteExpiredSessions"
    /\ repoCall.value = Some(1)
    /\ \E raw \in db : raw.status = UploadSessionStatus.COMPLETED
                        /\ raw.expiresAt < repoCall.arg[1]

\* C26: after save(s) of an upload session, findById(s.id) returns a session
\* whose counters, status and expiresAt are those of s.
C26_SaveRoundTrips ==
    (repoCall.repo = "uploadSession" /\ repoCall.op = "save") =>
        LET s == repoCall.arg[1]
            found == findById(db, s.id, now)
        IN  /\ found # Undefined
            /\ \A k \in {"totalChunks", "uploadedChunks", "totalSizeBytes",
                          "currentSizeBytes", "status", "expiresAt"} :
                   found[1].props[k] = s.props[k]

\* C23: save(e) and update(e) raise nothing and leave a row with e's id in
\* the table, beside the rows of the other ids as they were; update(e) does
\* what save(e) does; every table holds at most one row per id.
C23_UpsertById ==
    /\ \A repo \in {"uploadSession", "mediaFile", "mediaVariant", "processingJob"} :
           OneRowPerId(Table(Stores, repo))
    /\ \A s \in StoreSessions : update(db, s, now) = save(db, s, now)
    /\ \A m \in StoreFiles :
           MediaFileRepository_update(files, m, now) = MediaFileRepository_save(files, m, now)
    /\ repoCall.op \in {"save", "update"} =>
           LET e == repoCall.arg[1]
               rowsBefore == Table(repoCall.before, repoCall.repo)
               rowsAfter == Table(Stores, repoCall.repo)
           IN  /\ repoCall.error = NoError
               /\ e.id \in Ids(rowsAfter)
               /\ {raw \in rowsAfter : raw.id # e.id} = {raw \in rowsBefore : raw.id # e.id}

(***************************************************************************)
(* Upload requests that are rejected (UploadSpec).                         *)
(***************************************************************************)
\* the request carries no file, or no category, or one outside MediaCategory
Malformed(request) ==
    \/ ~request.hasFile
    \/ request.category = Undefined
    \/ request.category[1] \notin MediaCategories

Uploader(fileId) ==
    IF upl[fileId].input = Undefined THEN Undefined ELSE Some(upl[fileId].input[1].userId)

\* request d has begun and carries no user id, or one that is not the uploader
NotOwner(d) ==
    /\ del[d].pc # "idle"
    /\ \/ del[d].userId = Undefined
       \/ del[d].userId # Uploader(del[d].fileId[1])

HasVariant(fileId) == \E raw \in variants : raw.originalFileId = fileId

\* C24: at the step that completes a file-delete request for file F with
\* success, no media variant whose originalFileId is F is left in the
\* variant store.
C24_DeleteCascadesToVariants ==
    [][\A d \in Deletes :
          (del[d].pc # "done" /\ del'[d].pc = "done") => ~HasVariant(del[d].fileId[1])']_vars

\* a variant of F was stored, the delete of F is done, no variant of F is left
C24_Witness ==
    \E d \in Deletes, v \in VariantRequests :
        /\ del[d].pc = "done"
        /\ ~del[d].variantRepository
        /\ vreq[v].pc = "done"
        /\ vreq[v].fileId = del[d].fileId
        /\ ~HasVariant(del[d].fileId[1])

\* C25: once MediaService.deleteFile(F) is done and no media_files row has
\* id F, no later step stores a row with id F.
C25_DeletedStaysDeleted ==
    [][\A d \in Deletes :
          (del[d].pc = "done" /\ del[d].via = "service" /\ ~Saved(del[d].fileId[1]))
              => ~Saved(del[d].fileId[1])']_vars

\* C27: no step of a file-delete request that carries no user id, or a user
\* id other than the uploader's, removes a blob, a variant or a media file
\* row.
C27_NonOwnerDeletesNothing ==
    [][\A d \in Deletes :
          (del'[d] # del[d] /\ NotOwner(d)') => UNCHANGED <<files, blobs, variants>>]_vars

\* another user's delete was refused while the row, the blob and a variant
\* of the file are in place
C27_Witness ==
    \E d \in Deletes :
        /\ del[d].pc = "failed"
        /\ del[d].userId = Some("u2")
        /\ del[d].status = Some(Forbidden)
        /\ del[d].file = Undefined
        /\ Saved(del[d].fileId[1])
        /\ del[d].fileId[1] \in blobs
        /\ HasVariant(del[d].fileId[1])

====
